---- MODULE Spec2Model ----
(***************************************************************************)
(* The WhatsApp gateway of skytidecrm-agent: the /gupshup webhook handler  *)
(* (deduplication gate, asynchronous processing of one message event,     *)
(* per-conversation debounce buffer) and flushBuffer, the turn dispatcher. *)
(*                                                                         *)
(* The gateway is one Node.js process: a handler runs without interruption *)
(* from one await to the next, so an action below is the code of one       *)
(* handler between two suspension points.  An awaited call that touches no *)
(* state of the gateway (the read of the static platform_connections and   *)
(* contacts tables, processMedia, the AI backend, the provider send) is    *)
(* taken together with the datastore call that follows it: its answer is   *)
(* drawn in the action of that call.                                       *)
(*                                                                         *)
(* Time is a discrete clock, now.  The code's durations are scaled down to  *)
(* a few ticks (debounce 10 s and sweep period 60 s to 2 ticks, dedup TTL   *)
(* 300 s to 3 ticks); a timer callback runs at the tick at which it falls   *)
(* due.                                                                    *)
(***************************************************************************)
EXTENDS Integers, Sequences, FiniteSets, TLC

\* ------------------------------------------------------------------ bounds
\* Three kinds of run are explored: a burst (many deliveries in a short time),
\* a long run (few deliveries, spread until after the dedup TTL has passed) and,
\* for progress, a short run.
MaxDeliveries  == 5     \* webhook deliveries in a burst
MaxTime        == 1     \* last tick at which a delivery of a burst may arrive
LongDeliveries == 3     \* webhook deliveries in a long run
LongTime       == 4     \* last tick at which a delivery of a long run may arrive
ShortDeliveries == 2    \* webhook deliveries in a short run
ShortTime      == 2     \* last tick at which a delivery of a short run may arrive
MaxActive     == 2      \* message events in asynchronous processing at once
MaxDeviations == 1      \* deliveries and answers that leave the plain path (below)
MaxIdentities == 2      \* rows the datastore accepts in chat_identities
MaxLatency    == 0      \* ticks a message event may spend in asynchronous processing
MaxCalls      == 2      \* cacheAppendMessage calls in progress at once, in a cache run
ExtraAppends  == 5      \* rPush commands on a list beyond REDIS_LAST_N, in a cache run

\* --------------------------------------------------------- program constants
DEDUP_TTL     == 3      \* 5 * 60 * 1000 ms
SWEEP_MS      == 2      \* setInterval(..., 60000)
DEBOUNCE_MS   == 2      \* GATEWAY_DEBOUNCE_MS || '10000'
MAX_BATCH     == 5
REDIS_LAST_N  == 30     \* REDIS_CHAT_CACHE_N || '30'

NULL == "null"          \* JavaScript's null / undefined

\* ------------------------------------------------------------- the world
\* platform_connections: the rows with is_active = true, by gupshup_app_name.
Apps   == {"appA", "appX"}
platform_connections ==
    [a \in {"appA"} |-> [organization_id |-> "orgA",
                         whatsapp_business_number |-> "biz"]]
Phones == {"p1"}
\* payload.source of a delivery: the sender, or the tenant's own number (an echo).
Sources == {"user", "biz"}
\* The ids the provider gives its messages, in the order it issues them, and
\* the text each message carries.  A delivery may also carry no id at all
\* (NULL), and then no text either.
MessageIds == <<"m1", "m2", "m3", "m4", "m5", "m6", "m7">>
TextOf(id) ==
    IF id = NULL THEN ""
    ELSE [m1 |-> "a", m2 |-> "b", m3 |-> "c", m4 |-> "d", m5 |-> "e",
          m6 |-> "f", m7 |-> "g"][id]
\* The ids the datastore gives new chat_identities rows.
IdentityIds == <<"ci1", "ci2", "ci3", "ci4", "ci5", "ci6", "ci7", "ci8">>
MsgTypes == {"text", "audio"}
\* payload.type of the other messages with a file, explored in the media runs.
MediaTypes == {"image", "video", "file"}

VARIABLES
    now,                \* Date.now(), in ticks
    sweepAt,            \* when the setInterval callback next falls due
    executionCounter,   \* let executionCounter (also numbers the requests)
    idsIssued,          \* how many message ids the provider has issued
    processedMessages,  \* Map messageId -> Date.now() of the marking
    tasks,              \* the setImmediate callbacks in progress, by request
    chat_identities,    \* datastore table (id, platform_user_id, bot_enabled, contact_id,
                        \* last_seen); escalation: status of the last answer of the
                        \* escalation endpoint for the row, 0 when it was not called
    chat_messages,      \* datastore table
    cache,              \* redis lists cache:chat:<chatKey>
    calls,              \* per list, the cacheAppendMessage calls of a cache run
    pendingByChat,      \* Map chatKey -> { items, timer, ctx }
    timers,             \* the setTimeout handles that are still armed
    nextTimer,          \* the next handle setTimeout returns
    flushes,            \* the flushBuffer executions in flight, oldest first
    deviations,         \* how many draws have left the plain path so far
    gate,               \* history: per message id, what the gate answered and when
    res,                \* history: the last delivery and the response it was given
    appends,            \* history: the pushes to the buffer, in the order made
    batches             \* history: the batches flushBuffer has taken, in order

clockVars  == <<now, sweepAt>>
gateVars   == <<executionCounter, idsIssued, processedMessages, gate, res>>
storeVars  == <<chat_identities, chat_messages, cache, calls>>
bufferVars == <<pendingByChat, timers, nextTimer, flushes, appends, batches>>
vars == <<clockVars, gateVars, storeVars, bufferVars, tasks, deviations>>

\* chatKey = `${organization_id}:${chatIdentityId}`
ChatKey(organization_id, chatIdentityId) == <<organization_id, chatIdentityId>>

\* The list of a cache run.  For it, calls holds the number of rPush commands
\* answered so far, the calls in progress with their position and the len they
\* read, and whether a call started while another was in progress, a command
\* failed, or the list expired.
CacheKeys == {ChatKey("orgA", IdentityIds[1])}

\* After construction, with the lists recent in redis.  The datastore holds the
\* sender's chat identity, with the bot enabled or not, or does not hold it yet.
Started(recent) ==
    /\ now = 0
    /\ sweepAt = SWEEP_MS
    /\ executionCounter = 0
    /\ idsIssued = 0
    /\ processedMessages = <<>>
    /\ tasks = <<>>
    /\ chat_identities \in
          {{}} \cup {{[id |-> IdentityIds[1], platform_user_id |-> "p1",
                       bot_enabled |-> b, contact_id |-> "c1",
                       last_seen |-> 0, escalation |-> 0]} : b \in BOOLEAN}
    /\ chat_messages = {}
    /\ cache = recent
    /\ calls = [chatKey \in CacheKeys |-> [pushed |-> 0, running |-> {}, overlapped |-> FALSE,
                                   failed |-> FALSE, expired |-> FALSE]]
    /\ pendingByChat = <<>>
    /\ timers = {}
    /\ nextTimer = 1
    /\ flushes = <<>>
    /\ deviations = 0
    /\ gate = <<>>
    /\ res = [request |-> 0, evType |-> NULL, id |-> NULL, app |-> NULL,
              source |-> NULL, status |-> 0, message |-> NULL]
    /\ appends = <<>>
    /\ batches = <<>>

\* After construction, redis holding no list of the sender.
Init == Started(<<>>)

\* After a restart of the gateway within REDIS_TTL_SECONDS of an exchange with
\* the sender: redis holds the last REDIS_LAST_N turns of the chat.
OldTurns ==
    [k \in 1..REDIS_LAST_N |->
        [role |-> IF k % 2 = 1 THEN "user" ELSE "assistant", content |-> "old"]]
WarmInit == Started([chatKey \in CacheKeys |-> OldTurns])

\* f with key k removed (Map.delete).
MapDelete(f, k) == [x \in DOMAIN f \ {k} |-> f[x]]
\* f with k set to v (Map.set).
MapSet(f, k, v) == [x \in DOMAIN f \cup {k} |-> IF x = k THEN v ELSE f[x]]

Min(a, b) == IF a < b THEN a ELSE b
Max(a, b) == IF a > b THEN a ELSE b

\* The plain path: a text message with a new id from the sender to the tenant's
\* app, every external call answering without error, no escalation, and no
\* list of the cache expiring.  A step draws its
\* inputs and the answers of its external calls; plain tells of each whether it
\* is on the plain path, and a run leaves it at most MaxDeviations times.
Draws(plain) ==
    LET off == Cardinality({k \in DOMAIN plain : ~plain[k]}) IN
    /\ deviations + off <= MaxDeviations
    /\ deviations' = deviations + off

\* ------------------------------------------------------ the webhook handler
\* processMedia has answered null, or was not called.
NoMedia == [processedText |-> NULL, mediaUrl |-> NULL, stored |-> FALSE]

\* What the setImmediate callback of a request holds: the request body and the
\* callback's local variables.  pc names the datastore or redis call the
\* callback is awaiting.  The body's payload.type is drawn when the callback
\* reads it.
NewTask(id, phone, app, source) ==
    [pc |-> "identity", messageId |-> id, phone |-> phone, app |-> app,
     source |-> source, arrived |-> now, inserted |-> "none",
     chatIdentityId |-> NULL, contactId |-> NULL, botEnabled |-> FALSE,
     firstName |-> NULL, processedText |-> NULL, mediaResult |-> NoMedia]

\* A gate that takes no delivery for a duplicate.
NeverDuplicate(id) == FALSE

\* if (messageId && processedMessages.has(messageId))
IsDuplicate(id) == id # NULL /\ id \in DOMAIN processedMessages

\* A gate that does not mark the ids it has let pass.
MarkNothing(id) == processedMessages

\* if (messageId) processedMessages.set(messageId, Date.now())
MarkProcessed(id) ==
    IF id # NULL THEN MapSet(processedMessages, id, now) ELSE processedMessages

\* History of the gate: one more delivery of id passed, or was a duplicate;
\* when its first delivery, its last pass and its last delivery were.
GateOf(id) ==
    IF id \in DOMAIN gate THEN gate[id]
    ELSE [passes |-> 0, duplicates |-> 0, firstAt |-> now, lastPass |-> now,
          lastAt |-> now]
Passed(id) ==
    IF id = NULL THEN gate
    ELSE MapSet(gate, id, [GateOf(id) EXCEPT !.passes = @ + 1, !.lastPass = now,
                                             !.lastAt = now])
Refused(id) ==
    MapSet(gate, id, [GateOf(id) EXCEPT !.duplicates = @ + 1, !.lastAt = now])

\* A handler that answers nothing before the processing starts.
NoResponse(request, evType, id, app, source, status, message) == res

\* res.status(status).json({ status: ..., message }), of the delivery request.
Response(request, evType, id, app, source, status, message) ==
    [request |-> request, evType |-> evType, id |-> id, app |-> app,
     source |-> source, status |-> status, message |-> message]

\* router.post('/gupshup'), up to the setImmediate call: one delivery, of a run
\* of at most deliveries of them, the last one no later than lastArrival.
Receive(evType, id, phone, deliveries, lastArrival) ==
    /\ executionCounter < deliveries
    /\ now <= lastArrival
    /\ Cardinality(DOMAIN tasks) < MaxActive
    /\ executionCounter' = executionCounter + 1
    /\ \E app \in Apps, source \in Sources :
         /\ Draws(<<evType = "message" /\ id # NULL /\ ~IsDuplicate(id),
                    app = "appA", source = "user">>)
         /\ IF evType # "message"
              THEN /\ res' = Response(executionCounter', evType, id, app, source, 200,
                                      "Event received")
                   /\ UNCHANGED <<processedMessages, tasks, idsIssued, gate>>
              ELSE /\ idsIssued' = IF id # NULL /\ id = MessageIds[idsIssued + 1]
                                  THEN idsIssued + 1 ELSE idsIssued
                   /\ IF IsDuplicate(id)
                        THEN /\ gate' = Refused(id)
                             /\ res' = Response(executionCounter', evType, id, app,
                                                source, 200, "Duplicate message ignored")
                             /\ UNCHANGED <<processedMessages, tasks>>
                        ELSE /\ processedMessages' = MarkProcessed(id)
                             /\ gate' = Passed(id)
                             /\ res' = Response(executionCounter', evType, id, app,
                                    source, 200, "Message received and will be processed")
                             /\ tasks' = MapSet(tasks, executionCounter',
                                                NewTask(id, phone, app, source))
    /\ UNCHANGED <<clockVars, storeVars, bufferVars>>

\* A sweep that drops an id as soon as its age reaches DEDUP_TTL.
ExpiredAtTTL(timestamp) == now - timestamp >= DEDUP_TTL

\* if (now - timestamp > DEDUP_TTL)
Expired(timestamp) == now - timestamp > DEDUP_TTL

\* The setInterval callback: drop the ids marked more than DEDUP_TTL ago.
Sweep ==
    /\ now >= sweepAt
    /\ processedMessages' =
          [m \in {x \in DOMAIN processedMessages : ~Expired(processedMessages[x])}
             |-> processedMessages[m]]
    /\ sweepAt' = sweepAt + SWEEP_MS
    /\ UNCHANGED <<now, executionCounter, idsIssued, gate, res, storeVars, bufferVars,
                   tasks, deviations>>

\* Time passes while a delivery can still arrive or a debounce timer is armed.
\* A callback that is due runs before the clock moves on, and so does a message
\* event that has been in processing for MaxLatency ticks.
Tick(lastArrival) ==
    /\ now < lastArrival \/ timers # {}
    /\ \A r \in DOMAIN tasks : now - tasks[r].arrived < MaxLatency
    /\ sweepAt > now
    /\ \A t \in timers : t.due > now
    /\ now' = now + 1
    /\ UNCHANGED <<sweepAt, gateVars, storeVars, bufferVars, tasks, deviations>>

\* ------------------------------------------------- asynchronous processing
EndTask(r) == MapDelete(tasks, r)

\* A read that answers what a row is created with, whatever the row says now.
AsCreated(identity) == TRUE

\* botEnabled = identity?.bot_enabled === true
ReadBotEnabled(identity) == identity.bot_enabled = TRUE

\* A select that does not filter by the name of the app.
AnyConnection(app, ok) ==
    IF ok THEN [found |-> TRUE, row |-> platform_connections["appA"]]
    ELSE [found |-> FALSE]

\* platform_connections select(...).eq('gupshup_app_name', appName)
\* .eq('is_active', true).single(); found is !(orgError || !connection).
Connection(app, ok) ==
    IF ok /\ app \in DOMAIN platform_connections
    THEN [found |-> TRUE, row |-> platform_connections[app]]
    ELSE [found |-> FALSE]

\* A filter that lets the tenant's own messages through.
NeverEcho(source, connection) == FALSE

\* 4. Filtro Anti-Loop: if (req.body?.payload?.source === whatsapp_business_number)
IsEcho(source, connection) == source = connection.whatsapp_business_number

\* 3. Resolver Organizacion, 4. Filtro Anti-Loop, 5. Resolver Chat Identity: the
\* answers of the platform_connections select and of the chat_identities
\* select(...).single().  ok is false for an error of either, other than the
\* PGRST116 of single() (no row, or several), which the handler ignores.
IdentitySelected(r, ok) ==
    /\ r \in DOMAIN tasks /\ tasks[r].pc = "identity"
    /\ Draws(<<ok>>)
    /\ LET t == tasks[r]
           connection == Connection(t.app, ok)
           rows == {i \in chat_identities : i.platform_user_id = t.phone}
       IN
       tasks' =
         IF ~connection.found THEN EndTask(r)
         ELSE IF IsEcho(t.source, connection.row)
         THEN EndTask(r)
         ELSE IF Cardinality(rows) # 1
         THEN [tasks EXCEPT ![r].pc = "create"]
         ELSE LET identity == CHOOSE i \in rows : TRUE IN
              [tasks EXCEPT ![r].pc = "insert",
                            ![r].chatIdentityId = identity.id,
                            ![r].contactId = identity.contact_id,
                            ![r].botEnabled = ReadBotEnabled(identity)]
    /\ UNCHANGED <<clockVars, gateVars, storeVars, bufferVars>>

\* The answer of insert({organization_id, platform_user_id, platform}).select('id').
IdentityCreated(r, ok) ==
    /\ r \in DOMAIN tasks /\ tasks[r].pc = "create"
    /\ IF Cardinality(chat_identities) < MaxIdentities
         THEN Draws(<<ok>>) ELSE ~ok /\ UNCHANGED deviations
    /\ IF ~ok
         THEN /\ tasks' = EndTask(r)
              /\ UNCHANGED chat_identities
         ELSE LET newId == IdentityIds[Cardinality(chat_identities) + 1] IN
              /\ chat_identities' = chat_identities \cup
                    {[id |-> newId, platform_user_id |-> tasks[r].phone,
                      bot_enabled |-> TRUE, contact_id |-> NULL,
                      last_seen |-> 0, escalation |-> 0]}
              /\ tasks' = [tasks EXCEPT ![r].pc = "insert",
                                        ![r].chatIdentityId = newId,
                                        ![r].botEnabled = TRUE]
    /\ UNCHANGED <<clockVars, gateVars, chat_messages, cache, calls, bufferVars>>

\* messageContent = payloadInner?.text || '[Mensaje multimedia]'
MessageContent(text) == IF text = "" THEN "[Mensaje multimedia]" ELSE text

\* if (x): neither null nor the empty string.
Truthy(x) == x \notin {NULL, ""}

\* A processor whose catch answers no text at all.
processAudioSilent(id, downloaded, uploaded, described) ==
    [processedText |-> "", mediaUrl |-> NULL, stored |-> FALSE]

\* The media processor.  downloaded, uploaded and described tell whether
\* downloadFile, uploadToSupabaseStorage and the Gemini call answer without
\* error; the first one that fails throws into the catch of the function.  The
\* texts are written without their accents.  stored is history: the object is
\* in the storage bucket.
processAudio(id, downloaded, uploaded, described) ==
    IF downloaded /\ uploaded /\ described
    THEN [processedText |-> "[Audio transcrito]: " \o TextOf(id),
          mediaUrl |-> "publicUrl", stored |-> TRUE]
    ELSE [processedText |-> "[Audio recibido - Error en transcripcion]",
          mediaUrl |-> NULL, stored |-> downloaded /\ uploaded]

processImage(id, downloaded, uploaded, described) ==
    IF downloaded /\ uploaded /\ described
    THEN [processedText |-> "[Imagen enviada]: " \o TextOf(id),
          mediaUrl |-> "publicUrl", stored |-> TRUE]
    ELSE [processedText |-> "[Imagen recibida - Error en procesamiento]",
          mediaUrl |-> NULL, stored |-> downloaded /\ uploaded]

handleUnsupportedMedia(mediaType, downloaded, uploaded) ==
    IF downloaded /\ uploaded
    THEN [processedText |->
             IF mediaType = "video"
             THEN "He recibido tu video, pero no puedo procesarlo automaticamente."
             ELSE "He recibido tu documento, pero no puedo procesarlo automaticamente.",
          mediaUrl |-> "publicUrl", stored |-> TRUE]
    ELSE [processedText |-> "He recibido tu archivo, pero hubo un problema guardandolo.",
          mediaUrl |-> NULL, stored |-> FALSE]

\* processMedia: null for a payload without url.
processMedia(id, mediaType, hasUrl, downloaded, uploaded, described) ==
    IF ~hasUrl THEN NoMedia
    ELSE IF mediaType = "audio" THEN processAudio(id, downloaded, uploaded, described)
    ELSE IF mediaType = "image" THEN processImage(id, downloaded, uploaded, described)
    ELSE handleUnsupportedMedia(mediaType, downloaded, uploaded)

\* What processMedia can give back for a message of a media type.
MediaResults(id, msgType) ==
    {processMedia(id, msgType, hasUrl, downloaded, uploaded, described) :
        hasUrl \in BOOLEAN, downloaded \in BOOLEAN, uploaded \in BOOLEAN,
        described \in BOOLEAN}

\* 6. Procesar Contenido: processedText of a text, or of what processMedia gave.
ProcessedText(id, msgType, mediaResult) ==
    IF msgType # "text" /\ Truthy(mediaResult.processedText)
    THEN mediaResult.processedText
    ELSE MessageContent(TextOf(id))

\* const chatRow = {...}
ChatRow(r, msgType, mediaResult) ==
    LET t == tasks[r] IN
    [chat_identity_id |-> t.chatIdentityId, direction |-> "incoming",
     message |-> IF msgType = "text" THEN MessageContent(TextOf(t.messageId)) ELSE "",
     processed_text |-> ProcessedText(t.messageId, msgType, mediaResult),
     media_url |-> IF msgType # "text" /\ Truthy(mediaResult.processedText)
                   THEN mediaResult.mediaUrl ELSE NULL,
     platform_message_id |-> t.messageId, message_status |-> NULL,
     request |-> r,
     stored |-> msgType # "text" /\ mediaResult.stored]

\* A handler that goes on whatever botEnabled says.
NeverDisabled(t) == FALSE

\* if (botEnabled === false) return
BotDisabled(t) == t.botEnabled = FALSE

\* An insert whose error ends the processing of the event.
InsertIncomingOrReturn(row, ok) ==
    [rows |-> IF ok THEN chat_messages \cup {row} ELSE chat_messages,
     inserted |-> IF ok THEN "ok" ELSE "failed", returned |-> ~ok]

\* const { error: insertIncomingErr } = await supabase.from('chat_messages')
\* .insert(chatRow); if (insertIncomingErr) console.error(...): the handler
\* goes on.
InsertIncoming(row, ok) ==
    [rows |-> IF ok THEN chat_messages \cup {row} ELSE chat_messages,
     inserted |-> IF ok THEN "ok" ELSE "failed", returned |-> FALSE]

\* The contact's first_name (a failed select only warns), 6. the content and
\* 7. Guardar Mensaje Entrante: the answer of the insert (an error is only
\* logged); a chat whose bot is disabled ends here.
InboundInserted(r, msgType, mediaResult, contactOk, ok) ==
    /\ r \in DOMAIN tasks /\ tasks[r].pc = "insert"
    /\ Draws(<<ok, contactOk \/ tasks[r].contactId = NULL, msgType = "text">>)
    /\ chat_messages' = InsertIncoming(ChatRow(r, msgType, mediaResult), ok).rows
    /\ tasks' = IF \/ InsertIncoming(ChatRow(r, msgType, mediaResult), ok).returned
                   \/ BotDisabled(tasks[r])
                THEN EndTask(r)
                ELSE [tasks EXCEPT
                        ![r].pc = "cache",
                        ![r].inserted =
                            InsertIncoming(ChatRow(r, msgType, mediaResult), ok).inserted,
                        ![r].firstName = IF tasks[r].contactId # NULL /\ contactOk
                                         THEN "Ana" ELSE NULL,
                        ![r].processedText =
                            ProcessedText(tasks[r].messageId, msgType, mediaResult),
                        ![r].mediaResult =
                            IF msgType = "text" THEN NoMedia ELSE mediaResult]
    /\ UNCHANGED <<clockVars, gateVars, chat_identities, cache, calls, bufferVars>>

\* ------------------------------------------------------ recent-message cache
\* cacheAppendMessage: rPush, then lTrim to the last REDIS_LAST_N.
cacheAppendMessage(c, chatKey, role, content) ==
    LET old == IF chatKey \in DOMAIN c THEN c[chatKey] ELSE <<>>
        pushed == Append(old, [role |-> role, content |-> content])
        len == Len(pushed)
    IN MapSet(c, chatKey,
              IF len > REDIS_LAST_N
              THEN SubSeq(pushed, len - REDIS_LAST_N + 1, len) ELSE pushed)

\* A read that answers the first n entries of the list.
cacheGetFirstMessages(c, chatKey, n) ==
    IF chatKey \notin DOMAIN c THEN <<>>
    ELSE SubSeq(c[chatKey], 1, Min(n, Len(c[chatKey])))

\* cacheGetLastMessages: the last n entries, oldest first; [] when there are none.
cacheGetLastMessages(c, chatKey, n) ==
    IF chatKey \notin DOMAIN c THEN <<>>
    ELSE LET len == Len(c[chatKey]) IN SubSeq(c[chatKey], Max(0, len - n) + 1, len)

\* The commands of cacheAppendMessage one by one, as redis runs them when calls
\* overlap.  The content of the k-th rPush on a list is k, as text.
MaxAppends == REDIS_LAST_N + ExtraAppends
ListOf(c, chatKey) == IF chatKey \in DOMAIN c THEN c[chatKey] ELSE <<>>

\* A trim that keeps the head of the list and cuts its tail.
lTrimTail(list, start) == SubSeq(list, 1, Len(list) - start)

\* redis.lTrim(listKey, start, -1): the entries from index start (0-based) on.
lTrim(list, start) == SubSeq(list, start + 1, Len(list))

\* A call that goes to the catch, or returns: it is no longer in progress.
CallEnded(chatKey, call, ok) ==
    [calls EXCEPT ![chatKey].running = @ \ {call},
                  ![chatKey].failed = @ \/ ~ok]

\* await redis.rPush(listKey, JSON.stringify({ role, content }))
CacheRPush(chatKey, role, ok) ==
    /\ calls[chatKey].pushed < MaxAppends
    /\ Cardinality(UNION {calls[k].running : k \in CacheKeys}) < MaxCalls
    /\ Draws(<<ok>>)
    /\ LET k == calls[chatKey].pushed + 1
           call == [id |-> k, pc |-> "lLen", len |-> 0]
       IN IF ok
          THEN /\ cache' = MapSet(cache, chatKey,
                       Append(ListOf(cache, chatKey),
                              [role |-> role, content |-> ToString(k)]))
               /\ calls' = [calls EXCEPT
                     ![chatKey].pushed = k,
                     ![chatKey].overlapped = @ \/ calls[chatKey].running # {},
                     ![chatKey].running = @ \cup {call}]
          ELSE /\ calls' = [calls EXCEPT ![chatKey].failed = TRUE]
               /\ UNCHANGED cache
    /\ UNCHANGED <<clockVars, gateVars, chat_identities, chat_messages, bufferVars,
                   tasks>>

\* const len = await redis.lLen(listKey); if (len > REDIS_LAST_N) ... else the
\* call goes on to redis.expire, which restarts the time to live of the list.
CacheLLen(chatKey, call, ok) ==
    /\ call \in calls[chatKey].running /\ call.pc = "lLen"
    /\ Draws(<<ok>>)
    /\ LET len == Len(ListOf(cache, chatKey)) IN
       calls' = IF ok /\ len > REDIS_LAST_N
                THEN [calls EXCEPT ![chatKey].running =
                         (@ \ {call}) \cup {[call EXCEPT !.pc = "lTrim", !.len = len]}]
                ELSE CallEnded(chatKey, call, ok)
    /\ UNCHANGED <<clockVars, gateVars, chat_identities, chat_messages, cache,
                   bufferVars, tasks>>

\* await redis.lTrim(listKey, len - REDIS_LAST_N, -1), then redis.expire.
CacheLTrim(chatKey, call, ok) ==
    /\ call \in calls[chatKey].running /\ call.pc = "lTrim"
    /\ Draws(<<ok>>)
    /\ cache' = IF ok
                THEN MapSet(cache, chatKey,
                            lTrim(ListOf(cache, chatKey), call.len - REDIS_LAST_N))
                ELSE cache
    /\ calls' = CallEnded(chatKey, call, ok)
    /\ UNCHANGED <<clockVars, gateVars, chat_identities, chat_messages, bufferVars,
                   tasks>>

\* REDIS_TTL_SECONDS after the last expire command redis deletes the list.
CacheExpired(chatKey) ==
    /\ chatKey \in DOMAIN cache
    /\ Draws(<<FALSE>>)
    /\ cache' = MapDelete(cache, chatKey)
    /\ calls' = [calls EXCEPT ![chatKey].expired = TRUE]
    /\ UNCHANGED <<clockVars, gateVars, chat_identities, chat_messages, bufferVars,
                   tasks>>

\* ------------------------------------------------------- conversation buffer
\* items.join('\n')
RECURSIVE Join(_)
Join(items) ==
    IF Len(items) = 0 THEN ""
    ELSE IF Len(items) = 1 THEN items[1]
    ELSE items[1] \o "\n" \o Join(Tail(items))

\* A clearTimeout that cancels nothing.
KeepTimers(armed, handle) == armed

\* A clearTimeout that cancels every armed timer.
ClearAllTimers(armed, handle) == {}

\* clearTimeout(handle); handle 0 is the entry's initial timer: null.
ClearTimeout(armed, handle) == {t \in armed : t.id # handle}

\* A setTimeout that arms nothing.
NoTimeout(armed, handle, chatKey) == armed

\* A timer that falls due one tick early.
SetTimeoutEarly(armed, handle, chatKey) ==
    armed \cup {[id |-> handle, chatKey |-> chatKey, due |-> now + DEBOUNCE_MS - 1]}

\* setTimeout(() => flushBuffer(chatKey), DEBOUNCE_MS)
SetTimeout(armed, handle, chatKey) ==
    armed \cup {[id |-> handle, chatKey |-> chatKey, due |-> now + DEBOUNCE_MS]}

\* A flush that leaves its entry in the map.
KeepEntry(pending, chatKey) == pending

\* pendingByChat.delete(chatKey)
DeleteEntry(pending, chatKey) == MapDelete(pending, chatKey)

\* A size test that lets an entry reach MAX_BATCH texts.
OverFull(items) == Len(items) > MAX_BATCH

\* if (entry.items.length >= MAX_BATCH)
BatchFull(items) == Len(items) >= MAX_BATCH

\* One execution of flushBuffer, from the moment it has taken its entry; batch
\* is history: the number of its batch.
NewFlush(entry, chatKey) ==
    [chatKey |-> chatKey, items |-> entry.items, joined |-> Join(entry.items),
     ctx |-> entry.ctx, pc |-> "cacheGet", recentMessages |-> <<>>,
     aiResponse |-> NULL, batch |-> Len(batches) + 1]

\* History: the batch an execution of flushBuffer takes: the requests behind
\* its items, what called flushBuffer (a timer, or a push that filled the
\* entry), when, how many pushes had been made by then, and how the dispatch
\* ended.
NewBatch(entry, chatKey, trigger, seen) ==
    [chatKey |-> chatKey, src |-> entry.src, items |-> entry.items,
     joined |-> Join(entry.items), trigger |-> trigger, at |-> now,
     seen |-> seen, outcome |-> "pending", send |-> "none", insert |-> "none"]

\* flushBuffer(chatKey) up to its first await: what it leaves in the map, and
\* the execution it starts (none without an entry, or with an empty one).
flushBuffer(pending, chatKey, trigger, seen) ==
    IF chatKey \notin DOMAIN pending
    THEN [pending |-> pending, started |-> <<>>, taken |-> <<>>]
    ELSE LET entry == pending[chatKey]
             empty == Len(entry.items) = 0
         IN [pending |-> DeleteEntry(pending, chatKey),
             started |-> IF empty THEN <<>> ELSE <<NewFlush(entry, chatKey)>>,
             taken |-> IF empty THEN <<>>
                       ELSE <<NewBatch(entry, chatKey, trigger, seen)>>]

\* const ctx = {...}
Ctx(r) ==
    LET t == tasks[r] IN
    [organization_id |-> "orgA", chatIdentityId |-> t.chatIdentityId,
     contactId |-> t.contactId, phone |-> t.phone, firstName |-> t.firstName,
     supabase |-> r]

\* A push that leaves an entry the context of its first push.
PushedStale(r, chatKey) ==
    LET entry == IF chatKey \in DOMAIN pendingByChat
                 THEN pendingByChat[chatKey]
                 ELSE [items |-> <<>>, timer |-> 0, ctx |-> Ctx(r), src |-> <<>>]
    IN [entry EXCEPT !.items = Append(@, tasks[r].processedText),
                     !.src = Append(@, r)]

\* A push that forgets the handle of the timer its entry holds.
PushedForgetful(r, chatKey) ==
    LET entry == IF chatKey \in DOMAIN pendingByChat
                 THEN [pendingByChat[chatKey] EXCEPT !.ctx = Ctx(r), !.timer = 0]
                 ELSE [items |-> <<>>, timer |-> 0, ctx |-> Ctx(r), src |-> <<>>]
    IN [entry EXCEPT !.items = Append(@, tasks[r].processedText),
                     !.src = Append(@, r)]

\* let entry = pendingByChat.get(chatKey); if (!entry) {...} else entry.ctx = ctx;
\* entry.items.push(processedText)
Pushed(r, chatKey) ==
    LET entry == IF chatKey \in DOMAIN pendingByChat
                 THEN [pendingByChat[chatKey] EXCEPT !.ctx = Ctx(r)]
                 ELSE [items |-> <<>>, timer |-> 0, ctx |-> Ctx(r), src |-> <<>>]
    IN [entry EXCEPT !.items = Append(@, tasks[r].processedText),
                     !.src = Append(@, r)]

\* 7.1 the answer of cacheAppendMessage (a redis error is only logged), then
\* 8. the buffer: push, and either flush at once or restart the timer.
BufferAppend(r, ok) ==
    /\ r \in DOMAIN tasks /\ tasks[r].pc = "cache"
    /\ Draws(<<ok>>)
    /\ LET chatKey == ChatKey("orgA", tasks[r].chatIdentityId)
           entry == Pushed(r, chatKey)
           cleared == ClearTimeout(timers, entry.timer)
           push == [request |-> r, messageId |-> tasks[r].messageId,
                    chatKey |-> chatKey, text |-> tasks[r].processedText,
                    arrived |-> tasks[r].arrived, at |-> now,
                    botEnabled |-> tasks[r].botEnabled,
                    mediaResult |-> tasks[r].mediaResult,
                    inserted |-> tasks[r].inserted, cached |-> ok]
       IN /\ cache' = IF ok THEN cacheAppendMessage(cache, chatKey, "user",
                                                     tasks[r].processedText)
                       ELSE cache
          /\ IF BatchFull(entry.items)
               THEN LET f == flushBuffer(MapSet(pendingByChat, chatKey, entry),
                                         chatKey, "size", Len(appends) + 1) IN
                    /\ timers' = cleared
                    /\ pendingByChat' = f.pending
                    /\ flushes' = flushes \o f.started
                    /\ batches' = batches \o f.taken
                    /\ UNCHANGED nextTimer
               ELSE /\ timers' = SetTimeout(cleared, nextTimer, chatKey)
                    /\ pendingByChat' = MapSet(pendingByChat, chatKey,
                                               [entry EXCEPT !.timer = nextTimer])
                    /\ nextTimer' = nextTimer + 1
                    /\ UNCHANGED <<flushes, batches>>
          /\ appends' = Append(appends, push)
    /\ tasks' = EndTask(r)
    /\ UNCHANGED <<clockVars, gateVars, chat_identities, chat_messages, calls>>

\* A debounce timer falls due: its callback calls flushBuffer(chatKey).
TimerFire(t) ==
    /\ t \in timers /\ t.due <= now
    /\ timers' = timers \ {t}
    /\ LET f == flushBuffer(pendingByChat, t.chatKey, "timer", Len(appends)) IN
       /\ pendingByChat' = f.pending
       /\ flushes' = flushes \o f.started
       /\ batches' = batches \o f.taken
    /\ UNCHANGED <<clockVars, gateVars, storeVars, tasks, deviations, nextTimer,
                   appends>>

\* ------------------------------------------------------------ turn dispatcher
FlushAt(i, pc) == i \in DOMAIN flushes /\ flushes[i].pc = pc

\* flushBuffer returns: the execution is over.
EndFlush(i) == SubSeq(flushes, 1, i - 1) \o SubSeq(flushes, i + 1, Len(flushes))

\* A read that answers the list also when redis gave an error.
RecentMessagesAnyway(chatKey, ok) ==
    cacheGetLastMessages(cache, chatKey, Min(REDIS_LAST_N, 24))

\* await cacheGetLastMessages(chatKey, Math.min(REDIS_LAST_N, 24)) || []: the
\* function answers null without a client or when a command fails.
RecentMessages(chatKey, ok) ==
    IF ok THEN cacheGetLastMessages(cache, chatKey, Min(REDIS_LAST_N, 24))
    ELSE <<>>

\* The answer of cacheGetLastMessages; then the payload is built and the POST
\* to the AI backend starts.
FlushCacheRead(i, ok) ==
    /\ FlushAt(i, "cacheGet")
    /\ Draws(<<ok>>)
    /\ flushes' = [flushes EXCEPT ![i].pc = "invoke",
          ![i].recentMessages = RecentMessages(flushes[i].chatKey, ok)]
    /\ UNCHANGED <<clockVars, gateVars, storeVars, tasks, pendingByChat, timers,
                   nextTimer, appends, batches>>

\* A row that is written as pending whatever the send answered.
OutgoingRowPending(f, aiResponse, sendOk) ==
    [chat_identity_id |-> f.ctx.chatIdentityId, direction |-> "outgoing",
     message |-> aiResponse, processed_text |-> NULL, media_url |-> NULL,
     platform_message_id |-> IF sendOk THEN "gs" ELSE NULL,
     message_status |-> "pending", request |-> f.batch, stored |-> FALSE]

\* The row of the outgoing insert; request is history: the number of the batch
\* (in an incoming row, the request; there stored is history too: the media
\* object of the message is in the storage bucket).
OutgoingRow(f, aiResponse, sendOk) ==
    [chat_identity_id |-> f.ctx.chatIdentityId, direction |-> "outgoing",
     message |-> aiResponse, processed_text |-> NULL, media_url |-> NULL,
     platform_message_id |-> IF sendOk THEN "gs" ELSE NULL,
     message_status |-> IF sendOk THEN "pending" ELSE "failed",
     request |-> f.batch, stored |-> FALSE]

\* A call of /invoke whose error is swallowed and answered for.
InvokedAnyway(aiOk) == [thrown |-> FALSE, aiResponse |-> "Sin respuesta"]

\* await axios.post(pythonServiceUrl, payload, { timeout: 120000 }): a timeout or
\* a status outside 2xx throws; else aiResponse = data?.response.
Invoked(aiOk) ==
    [thrown |-> ~aiOk, aiResponse |-> IF aiOk THEN "reply" ELSE NULL]

\* An insert that is skipped when the send failed.
InsertWhenSent(f, aiResponse, sendOk, insertOk) ==
    IF insertOk /\ sendOk
    THEN chat_messages \cup {OutgoingRow(f, aiResponse, sendOk)} ELSE chat_messages

\* supabase.from('chat_messages').insert({...}) of the outgoing row, after the
\* send attempt; an error is only logged.
InsertOutgoing(f, aiResponse, sendOk, insertOk) ==
    IF insertOk
    THEN chat_messages \cup {OutgoingRow(f, aiResponse, sendOk)} ELSE chat_messages

\* A flush that goes on to the cache only when the reply was sent and recorded.
RecordedTurn(f, aiResponse, sendOk, insertOk) ==
    [f EXCEPT !.pc = IF sendOk /\ insertOk THEN "cacheAppend" ELSE "return",
              !.aiResponse = aiResponse]

\* After the send attempt and the insert attempt, whatever they answered:
\* await cacheAppendMessage(chatKey, 'assistant', aiResponse).
AssistantTurn(f, aiResponse, sendOk, insertOk) ==
    [f EXCEPT !.pc = "cacheAppend", !.aiResponse = aiResponse]

\* The answer of axios.post: an error or timeout goes to the catch of
\* flushBuffer, which logs it.  Else the answer of sendTextMessage
\* ({ success: true, messageId }, or a failure: a throw leaves gupshupResult at
\* { success: false, messageId: null }) and of the outgoing insert; then
\* cacheAppendMessage(chatKey, 'assistant', aiResponse) starts.  In batches, send
\* and insert are history: what the send and the insert of the batch answered.
FlushDispatched(i, aiOk, sendOk, insertOk) ==
    /\ FlushAt(i, "invoke")
    /\ Draws(<<aiOk, ~aiOk \/ sendOk, ~aiOk \/ insertOk>>)
    /\ LET answer == Invoked(aiOk) IN
       /\ batches' = [batches EXCEPT
             ![flushes[i].batch].outcome = IF aiOk THEN "dispatched" ELSE "failed",
             ![flushes[i].batch].send =
                 IF answer.thrown THEN "none" ELSE IF sendOk THEN "sent" ELSE "failed",
             ![flushes[i].batch].insert =
                 IF answer.thrown THEN "none" ELSE IF insertOk THEN "ok" ELSE "failed"]
       /\ IF answer.thrown
            THEN /\ flushes' = EndFlush(i)
                 /\ UNCHANGED chat_messages
            ELSE /\ chat_messages' =
                       InsertOutgoing(flushes[i], answer.aiResponse, sendOk, insertOk)
                 /\ flushes' = [flushes EXCEPT ![i] =
                       AssistantTurn(@, answer.aiResponse, sendOk, insertOk)]
    /\ UNCHANGED <<clockVars, gateVars, chat_identities, cache, calls, tasks,
                   pendingByChat, timers, nextTimer, appends>>

\* The answer of cacheAppendMessage(chatKey, 'assistant', aiResponse): flushBuffer
\* returns.
FlushCacheAppended(i, ok) ==
    /\ FlushAt(i, "cacheAppend")
    /\ Draws(<<ok>>)
    /\ cache' = IF ok THEN cacheAppendMessage(cache, flushes[i].chatKey, "assistant",
                                              flushes[i].aiResponse)
                 ELSE cache
    /\ flushes' = EndFlush(i)
    /\ UNCHANGED <<clockVars, gateVars, chat_identities, chat_messages, calls, tasks,
                   pendingByChat, timers, nextTimer, appends, batches>>

\* ------------------------------------------------------- escalation endpoint
\* router.post('/notify/escalation') of the internal API, which the AI backend
\* calls to hand a conversation to a human advisor.  A request that is not
\* valid (a missing parameter, no notification config or a disabled one, an
\* invalid recipient) is refused with 400 before step 5; then 5) Desactivar
\* bot, where an error of the update is only logged; 6) Enviar a Gupshup, whose
\* failure is answered with 502 and whose success with 200 {success: true}.
\* An escalation leaves the plain path.
Disabled(identity, upOk) ==
    IF upOk THEN [identity EXCEPT !.bot_enabled = FALSE] ELSE identity
Escalate(identity, valid, upOk, sendOk) ==
    /\ identity \in chat_identities
    /\ identity.bot_enabled
    /\ Draws(<<FALSE>>)
    /\ chat_identities' = (chat_identities \ {identity}) \cup
          {IF ~valid THEN [identity EXCEPT !.escalation = 400]
           ELSE [Disabled(identity, upOk) EXCEPT
                    !.escalation = IF sendOk THEN 200 ELSE 502]}
    /\ UNCHANGED <<clockVars, gateVars, chat_messages, cache, calls, bufferVars, tasks>>

\* ------------------------------------------------------------ specification
\* The message ids a delivery can carry: one issued before, the next new one,
\* or none.
DeliverableIds ==
    {MessageIds[k] : k \in 1..Min(idsIssued + 1, Len(MessageIds))} \cup {NULL}

\* The steps of the callbacks that are due or whose awaited call has answered.
Steps ==
    \/ Sweep
    \/ \E r \in DOMAIN tasks, ok \in BOOLEAN : IdentitySelected(r, ok)
    \/ \E r \in DOMAIN tasks, ok \in BOOLEAN : IdentityCreated(r, ok)
    \/ \E r \in DOMAIN tasks, msgType \in MsgTypes, contactOk \in BOOLEAN,
          ok \in BOOLEAN :
          \E mediaResult \in MediaResults(tasks[r].messageId, msgType) :
             InboundInserted(r, msgType, mediaResult, contactOk, ok)
    \/ \E r \in DOMAIN tasks, ok \in BOOLEAN : BufferAppend(r, ok)
    \/ \E t \in timers : TimerFire(t)
    \/ \E i \in DOMAIN flushes, ok \in BOOLEAN : FlushCacheRead(i, ok)
    \/ \E i \in DOMAIN flushes, aiOk \in BOOLEAN, sendOk \in BOOLEAN,
          insertOk \in BOOLEAN : FlushDispatched(i, aiOk, sendOk, insertOk)
    \/ \E i \in DOMAIN flushes, ok \in BOOLEAN : FlushCacheAppended(i, ok)

\* A burst.
Next ==
    \/ \E evType \in {"message", "user-event"}, id \in DeliverableIds,
          phone \in Phones : Receive(evType, id, phone, MaxDeliveries, MaxTime)
    \/ Tick(MaxTime)
    \/ Steps
    \/ \E identity \in chat_identities : Escalate(identity, TRUE, TRUE, TRUE)

Spec == Init /\ [][Next]_vars

\* A long run.
LongNext ==
    \/ \E evType \in {"message", "user-event"}, id \in DeliverableIds,
          phone \in Phones : Receive(evType, id, phone, LongDeliveries, LongTime)
    \/ Tick(LongTime)
    \/ Steps
    \/ \E identity \in chat_identities : Escalate(identity, TRUE, TRUE, TRUE)

LongSpec == Init /\ [][LongNext]_vars

\* A short run, in which time passes, timers fire and the callbacks whose
\* awaited call has answered run.
ShortNext ==
    \/ \E evType \in {"message", "user-event"}, id \in DeliverableIds,
          phone \in Phones : Receive(evType, id, phone, ShortDeliveries, ShortTime)
    \/ Tick(ShortTime)
    \/ Steps
    \/ \E identity \in chat_identities : Escalate(identity, TRUE, TRUE, TRUE)

FairSpec ==
    Init /\ [][ShortNext]_vars /\ WF_vars(Tick(ShortTime)) /\ WF_vars(Steps)

\* A short run.
ShortSpec == Init /\ [][ShortNext]_vars

\* A media run: a short run in which the messages may be of any media type.
MediaNext ==
    \/ ShortNext
    \/ \E r \in DOMAIN tasks, msgType \in MediaTypes, contactOk \in BOOLEAN,
          ok \in BOOLEAN :
          \E mediaResult \in MediaResults(tasks[r].messageId, msgType) :
             InboundInserted(r, msgType, mediaResult, contactOk, ok)

MediaSpec == Init /\ [][MediaNext]_vars

\* A run of two conversations: a short run in which a second sender writes.
OtherPhone == "p2"
PairNext ==
    \/ ShortNext
    \/ \E evType \in {"message", "user-event"}, id \in DeliverableIds :
          Receive(evType, id, OtherPhone, ShortDeliveries, ShortTime)

PairSpec == Init /\ [][PairNext]_vars

\* A warm run: a short run that starts with the chat's list full.
WarmSpec == WarmInit /\ [][ShortNext]_vars

\* An escalation run: a short run in which the calls of the escalation
\* endpoint may fail.
EscalationNext ==
    \/ ShortNext
    \/ \E identity \in chat_identities, valid \in BOOLEAN, upOk \in BOOLEAN,
          sendOk \in BOOLEAN : Escalate(identity, valid, upOk, sendOk)

EscalationSpec == Init /\ [][EscalationNext]_vars

\* A cache run: calls of cacheAppendMessage on the lists of CacheKeys, each
\* command answered or failing, and lists expiring.
CacheNext ==
    \/ \E chatKey \in CacheKeys, ok \in BOOLEAN : CacheRPush(chatKey, "user", ok)
    \/ \E chatKey \in CacheKeys, ok \in BOOLEAN :
          \E call \in calls[chatKey].running : CacheLLen(chatKey, call, ok)
    \/ \E chatKey \in CacheKeys, ok \in BOOLEAN :
          \E call \in calls[chatKey].running : CacheLTrim(chatKey, call, ok)
    \/ \E chatKey \in CacheKeys : CacheExpired(chatKey)
CacheSpec == Init /\ [][CacheNext]_vars

\* ------------------------------------------------------------------ properties
Ids == {MessageIds[k] : k \in DOMAIN MessageIds}

\* The message events in asynchronous processing that carry id.
TasksOf(id) == {r \in DOMAIN tasks : tasks[r].messageId = id}

\* The persisted inbound rows, and the pushes to the buffer, of message id.
InboundRows(id) ==
    {row \in chat_messages : row.direction = "incoming" /\ row.platform_message_id = id}
Pushes(id) == {k \in DOMAIN appends : appends[k].messageId = id}

\* C1 (dedup gate): a delivery of a message id passes the gate only when the id
\* is not in the dedup map, and the pass puts it there; a delivery is answered
\* as a duplicate only when the id is in the map, and then starts no processing
\* and leaves the map alone.  So of the deliveries of an id that arrive while it
\* stays in the map exactly one, the one that put it there, is processed; and no
\* id passes twice within DEDUP_TTL.
C1_DedupGate ==
    [][\A id \in Ids :
         LET before == GateOf(id)
             after == GateOf(id)'
         IN /\ after.passes > before.passes =>
                 /\ id \notin DOMAIN processedMessages
                 /\ id \in DOMAIN processedMessages'
                 /\ after.passes = before.passes + 1
                 /\ Cardinality(DOMAIN tasks') = Cardinality(DOMAIN tasks) + 1
                 /\ before.passes > 0 => now - before.lastPass > DEDUP_TTL
            /\ after.duplicates > before.duplicates =>
                 /\ id \in DOMAIN processedMessages
                 /\ after.passes = before.passes
                 /\ UNCHANGED <<tasks, processedMessages>>]_vars

\* An id was delivered again while the message event of its first delivery was
\* still in processing, and the second delivery was answered as a duplicate.
C1_Witness ==
    \E id \in Ids :
       /\ GateOf(id).passes = 1 /\ GateOf(id).duplicates >= 1
       /\ TasksOf(id) # {}
       /\ id \in DOMAIN processedMessages

\* C2 (dedup idempotence): the deliveries of a message id that all arrive within
\* DEDUP_TTL of its first one leave at most one inbound row and at most one
\* push to the buffer; and exactly one of each once the processing is over, when
\* the sender has one chat identity with the bot enabled and nothing but
\* redeliveries has left the plain path.
TotalDuplicates == LET RECURSIVE Sum(_)
                       Sum(S) == IF S = {} THEN 0
                                 ELSE LET id == CHOOSE x \in S : TRUE
                                      IN gate[id].duplicates + Sum(S \ {id})
                   IN Sum(DOMAIN gate)
BotEnabled ==
    /\ Cardinality(chat_identities) = 1
    /\ \A i \in chat_identities : i.bot_enabled
C2_DedupIdempotence ==
    \A id \in DOMAIN gate :
       gate[id].lastAt - gate[id].firstAt <= DEDUP_TTL =>
          /\ Cardinality(InboundRows(id)) <= 1
          /\ Cardinality(Pushes(id)) <= 1
          /\ (TasksOf(id) = {} /\ BotEnabled /\ deviations = TotalDuplicates) =>
                 /\ Cardinality(InboundRows(id)) = 1
                 /\ Cardinality(Pushes(id)) = 1

\* The same id was delivered twice within DEDUP_TTL, its processing is over, and
\* there is one inbound row and one push of it.
C2_Witness ==
    \E id \in DOMAIN gate :
       /\ gate[id].duplicates >= 1
       /\ gate[id].lastAt - gate[id].firstAt <= DEDUP_TTL
       /\ TasksOf(id) = {} /\ BotEnabled
       /\ Cardinality(InboundRows(id)) = 1
       /\ Cardinality(Pushes(id)) = 1

\* The pushes to a conversation key, the push of a request, and the places of a
\* request in the batches taken so far.
KeyPushes(chatKey) == {k \in DOMAIN appends : appends[k].chatKey = chatKey}
PushOf(r) == CHOOSE k \in DOMAIN appends : appends[k].request = r
Places(r) ==
    {<<b, j>> \in (DOMAIN batches) \X (1..MAX_BATCH) :
        j <= Len(batches[b].src) /\ batches[b].src[j] = r}
TimerBatches == {b \in DOMAIN batches : batches[b].trigger = "timer"}
SizeBatches == {b \in DOMAIN batches : batches[b].trigger = "size"}

\* The texts of a batch as one message: one line each.
RECURSIVE Lines(_)
Lines(texts) ==
    IF texts = <<>> THEN ""
    ELSE IF Len(texts) = 1 THEN texts[1]
    ELSE Lines(SubSeq(texts, 1, Len(texts) - 1)) \o "\n" \o texts[Len(texts)]

\* C3 (debounce coalescing): a batch taken by a timer is one whole burst of
\* fewer than MAX_BATCH pushes to its key: the pushes of its requests are
\* consecutive pushes to the key, in push order; the push before them (unless a
\* full batch took it) came at least DEBOUNCE_MS before the first and every
\* later push comes no sooner than the flush; no other batch has any of its
\* requests; its message is the pushed texts in push order, one per line; and it
\* is taken exactly DEBOUNCE_MS after the last push of the burst.
C3_DebounceCoalescing ==
    \A b \in TimerBatches :
       LET B == batches[b]
           n == Len(B.src)
           first == PushOf(B.src[1])
           last == PushOf(B.src[n])
       IN /\ n >= 1 /\ n < MAX_BATCH
          /\ \A j \in 1..n : \E k \in KeyPushes(B.chatKey) :
                appends[k].request = B.src[j]
          /\ \A j \in 1..(n - 1) : PushOf(B.src[j]) < PushOf(B.src[j + 1])
          /\ {PushOf(B.src[j]) : j \in 1..n} =
                {k \in KeyPushes(B.chatKey) : first <= k /\ k <= last}
          /\ \A k \in KeyPushes(B.chatKey) :
                /\ k > last => appends[k].at >= B.at
                /\ k < first =>
                      \/ appends[first].at - appends[k].at >= DEBOUNCE_MS
                      \/ \E c \in SizeBatches : Places(appends[k].request) \cap
                                                ({c} \X (1..MAX_BATCH)) # {}
          /\ \A j \in 1..n : Places(B.src[j]) = {<<b, j>>}
          /\ B.items = [j \in 1..n |-> appends[PushOf(B.src[j])].text]
          /\ B.joined = Lines(B.items)
          /\ B.at = appends[last].at + DEBOUNCE_MS

\* A burst of three texts, pushed at more than one tick, has been flushed as one
\* batch, later than DEBOUNCE_MS after its first push.
C3_Witness ==
    \E b \in TimerBatches :
       LET B == batches[b] IN
       /\ Len(B.src) >= 3
       /\ appends[PushOf(B.src[1])].at < appends[PushOf(B.src[Len(B.src)])].at
       /\ B.at > appends[PushOf(B.src[1])].at + DEBOUNCE_MS
       /\ B.joined = B.items[1] \o "\n" \o B.items[2] \o "\n" \o B.items[3]

\* C4 (strict reset-on-append): when a timer takes a batch, every push made to
\* its key until then is at least DEBOUNCE_MS old; so no timer takes a batch
\* between two pushes to a key that are less than DEBOUNCE_MS apart.
C4_ResetOnAppend ==
    \A b \in TimerBatches :
       LET B == batches[b]
           K == KeyPushes(B.chatKey)
       IN /\ \A k \in K : k <= B.seen => B.at - appends[k].at >= DEBOUNCE_MS
          /\ \A k \in K, l \in K :
                (k < l /\ appends[l].at - appends[k].at < DEBOUNCE_MS)
                   => ~(k <= B.seen /\ B.seen < l)

\* A push restarted a running timer (it came after an earlier push to the key,
\* less than DEBOUNCE_MS later), and the timer took the batch afterwards.
C4_Witness ==
    \E b \in TimerBatches : \E k, l \in KeyPushes(batches[b].chatKey) :
       /\ k < l /\ l <= batches[b].seen
       /\ appends[k].at < appends[l].at
       /\ appends[l].at - appends[k].at < DEBOUNCE_MS
       /\ batches[b].at - appends[k].at > DEBOUNCE_MS

\* C5 (size-triggered flush): the push that brings an entry to MAX_BATCH texts
\* takes the batch in the same step: the step that adds a full batch is a push,
\* the batch is the last MAX_BATCH texts pushed to the key, and after the step
\* the key has no entry and no timer; and no step leaves an entry with
\* MAX_BATCH texts in the map.
C5_SizeTriggeredFlush ==
    [][/\ \A k \in DOMAIN pendingByChat' :
             Len(pendingByChat'[k].items) < MAX_BATCH
       /\ \A b \in DOMAIN batches' \ DOMAIN batches :
             LET B == batches'[b]
                 K == {k \in DOMAIN appends' : appends'[k].chatKey = B.chatKey}
             IN B.trigger = "size" =>
                  /\ Len(appends') = Len(appends) + 1
                  /\ appends'[Len(appends')].chatKey = B.chatKey
                  /\ B.at = now /\ B.seen = Len(appends')
                  /\ Len(B.items) = MAX_BATCH
                  /\ \A j \in 1..MAX_BATCH :
                        /\ appends'[B.seen].request = B.src[MAX_BATCH]
                        /\ \E k \in K : /\ appends'[k].request = B.src[j]
                                        /\ appends'[k].text = B.items[j]
                                        /\ Cardinality({l \in K : l >= k})
                                              = MAX_BATCH + 1 - j
                  /\ B.chatKey \notin DOMAIN pendingByChat'
                  /\ \A t \in timers' : t.chatKey # B.chatKey
                  /\ \E i \in DOMAIN flushes' :
                        flushes'[i].batch = b /\ flushes'[i].items = B.items]_vars

\* A fifth text was pushed while the timer of the first four was running, and
\* the batch was taken at once.
C5_Witness ==
    \E b \in SizeBatches :
       /\ Len(batches[b].items) = MAX_BATCH
       /\ appends[PushOf(batches[b].src[1])].at < batches[b].at
       /\ batches[b].chatKey \notin DOMAIN pendingByChat
       /\ timers = {}

\* C6 (no lost or duplicated buffered message): every pushed text is either in
\* the entry of its key or in exactly one place of one batch, never in both and
\* never in neither; and the batch holds the text that was pushed.
C6_NoLostOrDuplicated ==
    \A k \in DOMAIN appends :
       LET a == appends[k]
           waiting == /\ a.chatKey \in DOMAIN pendingByChat
                      /\ \E j \in DOMAIN pendingByChat[a.chatKey].src :
                            pendingByChat[a.chatKey].src[j] = a.request
       IN /\ Cardinality(Places(a.request)) <= 1
          /\ waiting <=> Places(a.request) = {}
          /\ \A p \in Places(a.request) :
                /\ batches[p[1]].chatKey = a.chatKey
                /\ batches[p[1]].items[p[2]] = a.text
          /\ waiting =>
                Cardinality({j \in DOMAIN pendingByChat[a.chatKey].src :
                                pendingByChat[a.chatKey].src[j] = a.request}) = 1

\* A text was pushed to a key while a flush of that key was in flight: it went
\* to a new entry, and a second batch took it.
C6_Witness ==
    \E b, c \in DOMAIN batches :
       /\ b < c /\ batches[b].chatKey = batches[c].chatKey
       /\ \E i, j \in DOMAIN flushes : flushes[i].batch = b /\ flushes[j].batch = c
       /\ batches[c].src[1] \notin {batches[b].src[j] : j \in DOMAIN batches[b].src}
       /\ appends[PushOf(batches[c].src[1])].at >= batches[b].at

\* C7 (at most one in-flight flush per key): no two executions of flushBuffer
\* for the same key are both between taking their entry and the end of their
\* dispatch.  The code does not keep this: flushBuffer keeps no record of an
\* execution in flight, so the timer of a newer entry starts a second one.
Dispatching(i) == flushes[i].pc \in {"cacheGet", "invoke"}
C7_OneFlushInFlight ==
    \A i, j \in DOMAIN flushes :
       (i # j /\ Dispatching(i) /\ Dispatching(j))
          => flushes[i].chatKey # flushes[j].chatKey

\* C8 (at most one active timer per key): every armed timer is the one its
\* key's entry holds, so a key has at most one and a key without an entry has
\* none.
C8_OneTimerPerKey ==
    /\ \A t \in timers :
          /\ t.chatKey \in DOMAIN pendingByChat
          /\ pendingByChat[t.chatKey].timer = t.id
    /\ \A t, u \in timers : t.chatKey = u.chatKey => t = u

\* A push has replaced the timer of an entry, and an earlier entry of the same
\* key has been flushed: the one timer armed is the newest.
C8_Witness ==
    \E t \in timers :
       /\ t.id >= 3
       /\ Len(pendingByChat[t.chatKey].items) >= 2
       /\ \E b \in DOMAIN batches : batches[b].chatKey = t.chatKey

\* C9 (forward progress of the buffer): every text pushed to the buffer is in
\* the end handed to a dispatch (a batch takes it and the AI backend is called
\* for that batch), whatever became of the batches before it, a batch whose
\* dispatch failed included.
Handed(r) == \E p \in Places(r) : batches[p[1]].outcome # "pending"
C9_ForwardProgress ==
    \A r \in 1..ShortDeliveries :
       (\E k \in DOMAIN appends : appends[k].request = r) ~> Handed(r)

\* The dispatch of a batch failed, and a text pushed to the same key after that
\* batch was taken has been handed to a dispatch of its own.
C9_Witness ==
    \E b \in DOMAIN batches : \E k \in KeyPushes(batches[b].chatKey) :
       /\ batches[b].outcome = "failed"
       /\ k > batches[b].seen
       /\ Handed(appends[k].request)
       /\ batches[b].chatKey \notin DOMAIN pendingByChat

\* C10 (append order matches arrival order): the pushes to a key are made in
\* the order in which their deliveries arrived.  The code does not keep this:
\* the asynchronous processing of two deliveries runs concurrently and the one
\* whose awaited calls answer first pushes first.
C10_AppendOrder ==
    \A k, l \in DOMAIN appends :
       (k < l /\ appends[k].chatKey = appends[l].chatKey)
          => appends[k].request < appends[l].request

\* The step of the handler that ends the processing of request r, or moves it on.
Stepped(r) == r \in DOMAIN tasks /\ (r \notin DOMAIN tasks' \/ tasks'[r] # tasks[r])
IncomingRows(r) ==
    {row \in chat_messages : row.direction = "incoming" /\ row.request = r}

\* C11: an event whose identity read gave botEnabled = false ends after the
\* insert of its inbound row: the row is written (always, when the datastore
\* answers without error), the cache and the buffer (entries, timers, flushes)
\* are left as they were, and no text was ever pushed for a disabled chat.
C11_BotEnabledGating ==
    /\ [](\A k \in DOMAIN appends : appends[k].botEnabled)
    /\ [][\A r \in DOMAIN tasks :
            (tasks[r].pc = "insert" /\ ~tasks[r].botEnabled /\ Stepped(r)) =>
               /\ r \notin DOMAIN tasks'
               /\ cache' = cache
               /\ UNCHANGED bufferVars
               /\ chat_messages \subseteq chat_messages'
               /\ \A row \in chat_messages' \ chat_messages :
                     /\ row.direction = "incoming" /\ row.request = r
                     /\ row.chat_identity_id = tasks[r].chatIdentityId
               /\ deviations' = deviations =>
                     \E row \in chat_messages' \ chat_messages : row.request = r]_vars
C11_Witness ==
    /\ tasks = <<>>
    /\ \E identity \in chat_identities : ~identity.bot_enabled
    /\ \E r \in 1..executionCounter :
          /\ IncomingRows(r) # {}
          /\ \A k \in DOMAIN appends : appends[k].request # r
    /\ appends = <<>> /\ timers = {} /\ batches = <<>> /\ cache = <<>>

\* The chat_identities rows of a phone, as the select of the handler sees them.
RowsOf(phone) == {i \in chat_identities : i.platform_user_id = phone}

\* C12: the botEnabled an event is gated by is the one its own identity step
\* read from the datastore (or the true of the row it created): the step writes
\* the value of the row as it is at that moment, no later step of the event
\* changes it, and the event ends at the gate exactly when it is false.
C12_BotEnabledFreshness ==
    [][\A r \in DOMAIN tasks :
         /\ (tasks[r].pc = "identity" /\ r \in DOMAIN tasks'
                /\ tasks'[r].pc = "insert") =>
               \E identity \in RowsOf(tasks[r].phone) :
                  /\ tasks'[r].chatIdentityId = identity.id
                  /\ tasks'[r].botEnabled = identity.bot_enabled
         /\ (tasks[r].pc = "create" /\ r \in DOMAIN tasks'
                /\ tasks'[r].pc = "insert") =>
               \E identity \in chat_identities' \ chat_identities :
                  /\ tasks'[r].chatIdentityId = identity.id
                  /\ tasks'[r].botEnabled = identity.bot_enabled
         /\ (tasks[r].pc \in {"insert", "cache"} /\ r \in DOMAIN tasks') =>
               tasks'[r].botEnabled = tasks[r].botEnabled
         /\ (tasks[r].pc = "insert" /\ Stepped(r)) =>
               (r \notin DOMAIN tasks' <=> ~tasks[r].botEnabled)]_vars
\* A first event was pushed, the bot was disabled, and the next event of the
\* same chat was persisted and gated.
C12_Witness ==
    /\ tasks = <<>>
    /\ \E k \in DOMAIN appends, r \in 1..executionCounter :
          /\ appends[k].request < r
          /\ \E row \in IncomingRows(r) :
                row.chat_identity_id = appends[k].chatKey[2]
          /\ \A j \in DOMAIN appends : appends[j].request # r
          /\ \E identity \in chat_identities :
                identity.id = appends[k].chatKey[2] /\ ~identity.bot_enabled

\* The flushes that start their call of /invoke in this step: the cache read has
\* answered and axios.post is called.
Invoking ==
    {j \in DOMAIN flushes' :
        /\ flushes'[j].pc = "invoke"
        /\ \E i \in DOMAIN flushes :
              flushes[i].batch = flushes'[j].batch /\ flushes[i].pc = "cacheGet"}

\* C13: no call of /invoke starts for a chat whose bot_enabled is false at that
\* moment, texts pushed before the flag was flipped included.
C13_BotEnabledAtInvocation ==
    [][\A j \in Invoking :
         \E identity \in chat_identities :
            /\ identity.id = flushes'[j].ctx.chatIdentityId
            /\ identity.bot_enabled]_vars

\* C14: the sender has at most one chat_identities row, whatever the
\* interleaving of the events that found none, and every text of the sender is
\* pushed under the one buffer key.
C14_IdentityCreatedOnce ==
    /\ \A phone \in Phones : Cardinality(RowsOf(phone)) <= 1
    /\ \A k, l \in DOMAIN appends : appends[k].chatKey = appends[l].chatKey

\* list is what is left of old after entries were removed from its head.
IsSuffix(list, old) ==
    Len(list) <= Len(old) /\ list = SubSeq(old, Len(old) - Len(list) + 1, Len(old))

StorageFailed(mediaResult) == mediaResult.processedText # NULL /\ ~mediaResult.stored
LastOf(items) == items[Len(items)]

\* C16: when the download or the upload of a media message fails, the processor
\* answers a non-empty fallback text with mediaUrl null, the handler goes on with
\* that text: the only row it inserts is the inbound row with the fallback text
\* and no media url (always, when nothing else fails), and the next step pushes
\* the fallback text to the buffer of the chat.
C16_MediaFallback ==
    /\ [](\A k \in DOMAIN appends :
            StorageFailed(appends[k].mediaResult) =>
               /\ Truthy(appends[k].text)
               /\ appends[k].text = appends[k].mediaResult.processedText)
    /\ [][\A r \in DOMAIN tasks :
            (tasks[r].pc = "insert" /\ Stepped(r) /\ r \in DOMAIN tasks'
               /\ StorageFailed(tasks'[r].mediaResult)) =>
               LET t == tasks'[r] IN
               /\ t.pc = "cache"
               /\ Truthy(t.mediaResult.processedText)
               /\ t.mediaResult.mediaUrl = NULL
               /\ t.processedText = t.mediaResult.processedText
               /\ \A row \in chat_messages' \ chat_messages :
                     /\ row.direction = "incoming" /\ row.request = r
                     /\ row.processed_text = t.processedText
                     /\ row.media_url = NULL
               /\ deviations' = deviations + 1 =>
                     chat_messages' # chat_messages]_vars
    /\ [][\A r \in DOMAIN tasks :
            (tasks[r].pc = "cache" /\ Stepped(r)
               /\ StorageFailed(tasks[r].mediaResult)) =>
               LET chatKey == ChatKey("orgA", tasks[r].chatIdentityId) IN
               /\ r \notin DOMAIN tasks'
               /\ Len(appends') = Len(appends) + 1
               /\ LastOf(appends').request = r
               /\ LastOf(appends').text = tasks[r].processedText
               /\ \/ /\ chatKey \in DOMAIN pendingByChat'
                     /\ LastOf(pendingByChat'[chatKey].items) = tasks[r].processedText
                  \/ /\ Len(flushes') = Len(flushes) + 1
                     /\ LastOf(flushes').chatKey = chatKey
                     /\ LastOf(LastOf(flushes').items) = tasks[r].processedText]_vars
\* The media of a message could not be stored; its row holds the fallback text
\* and no url, and the text was pushed.
C16_Witness ==
    \E k \in DOMAIN appends :
       /\ StorageFailed(appends[k].mediaResult)
       /\ \E row \in IncomingRows(appends[k].request) :
             /\ row.processed_text = appends[k].text
             /\ row.media_url = NULL
             /\ row.message = ""

\* C17: an inbound row whose media object is in the storage bucket carries the
\* url of that object, also when the transcription or the description of the
\* media failed and its text is the placeholder.
C17_StoredUrlKept ==
    \A row \in chat_messages :
       (row.direction = "incoming" /\ row.stored) => row.media_url # NULL

OutgoingRows(b) ==
    {row \in chat_messages : row.direction = "outgoing" /\ row.request = b}
\* The flush of batch b gets the answer of its call of /invoke in this step.
Answered(b) == batches[b].outcome = "pending" /\ batches'[b].outcome # "pending"

\* C18: a flush whose call of /invoke fails sends nothing, inserts no outgoing
\* row and ends there, so that it appends no assistant turn to the cache; the
\* step leaves the rows, the cache, the buffer and the other callbacks alone.
C18_FailedInvokeSkipsReply ==
    /\ [](\A b \in DOMAIN batches :
            batches[b].outcome = "failed" =>
               /\ batches[b].send = "none" /\ batches[b].insert = "none"
               /\ OutgoingRows(b) = {}
               /\ \A i \in DOMAIN flushes : flushes[i].batch # b)
    /\ [][\A b \in DOMAIN batches :
            (Answered(b) /\ batches'[b].outcome = "failed") =>
               /\ chat_messages' = chat_messages
               /\ cache' = cache
               /\ Len(flushes') = Len(flushes) - 1
               /\ UNCHANGED <<tasks, pendingByChat, timers, appends>>]_vars
\* The call of /invoke of a batch failed; the inbound rows of its messages are
\* in the datastore and nothing is left in flight.
C18_Witness ==
    \E b \in DOMAIN batches :
       /\ batches[b].outcome = "failed"
       /\ \A k \in DOMAIN batches[b].src : IncomingRows(batches[b].src[k]) # {}
       /\ flushes = <<>> /\ tasks = <<>>

\* C19: a flush whose call of /invoke was answered attempts the send and then
\* the insert of one outgoing row, whatever the send answered: the row of the
\* batch is in the datastore exactly when the insert was answered without error,
\* and the step inserts nothing else.
C19_OutgoingRowPersisted ==
    /\ [](\A b \in DOMAIN batches :
            batches[b].outcome = "dispatched" =>
               /\ batches[b].send \in {"sent", "failed"}
               /\ batches[b].insert \in {"ok", "failed"}
               /\ Cardinality(OutgoingRows(b)) =
                     IF batches[b].insert = "ok" THEN 1 ELSE 0)
    /\ [][\A b \in DOMAIN batches :
            (Answered(b) /\ batches'[b].outcome = "dispatched") =>
               /\ chat_messages \subseteq chat_messages'
               /\ \A row \in chat_messages' \ chat_messages :
                     row.direction = "outgoing" /\ row.request = b]_vars
\* The send of a reply failed and its outgoing row is in the datastore.
C19_Witness ==
    \E b \in DOMAIN batches :
       /\ batches[b].outcome = "dispatched"
       /\ batches[b].send = "failed"
       /\ Cardinality(OutgoingRows(b)) = 1

\* C20: the outgoing row of a batch has status 'sent' when the send succeeded
\* and 'failed' when it did not, and carries the message id the provider gave.
C20_OutgoingStatus ==
    \A b \in DOMAIN batches : \A row \in OutgoingRows(b) :
       /\ row.message_status = IF batches[b].send = "sent" THEN "sent" ELSE "failed"
       /\ batches[b].send = "sent" => row.platform_message_id # NULL

\* C20, as the code has it: the outgoing row of a batch has status 'pending'
\* when the send succeeded (the delivery webhook of the provider moves it on
\* later) and 'failed' when it did not, and carries the message id the provider
\* gave, or null.
C20_OutgoingStatusPending ==
    \A b \in DOMAIN batches : \A row \in OutgoingRows(b) :
       /\ batches[b].send \in {"sent", "failed"}
       /\ row.message_status =
             IF batches[b].send = "sent" THEN "pending" ELSE "failed"
       /\ (row.platform_message_id # NULL) <=> batches[b].send = "sent"
\* A reply was sent and its row written.
C20_Witness ==
    \E b \in DOMAIN batches : \E row \in OutgoingRows(b) :
       batches[b].send = "sent" /\ row.message_status = "pending"

\* The response a message event gets when it passes the gate.
Received == "Message received and will be processed"

\* C21: the step that lets a message event pass the gate answers 200 and leaves
\* the processing of the event at its start, with no call made: the datastore,
\* the cache and the buffer are as before.  No later step, failing or not,
\* changes the response, and a step of the processing of one event leaves the
\* processing of the others alone.
C21_AckBeforeProcessing ==
    /\ [][\A r \in DOMAIN tasks' \ DOMAIN tasks :
            /\ res'.request = r /\ res'.status = 200 /\ res'.message = Received
            /\ tasks'[r].pc = "identity" /\ tasks'[r].chatIdentityId = NULL
            /\ UNCHANGED <<storeVars, bufferVars>>]_vars
    /\ [][executionCounter' = executionCounter => res' = res]_vars
    /\ [][\A r \in DOMAIN tasks :
            Stepped(r) => /\ res' = res
                          /\ \A q \in DOMAIN tasks \ {r} :
                                q \in DOMAIN tasks' /\ tasks'[q] = tasks[q]]_vars
\* An event was answered 200, and its processing then failed and ended.
C21_Witness ==
    /\ res.status = 200 /\ res.message = Received /\ res.app = "appA"
    /\ res.request \notin DOMAIN tasks
    /\ deviations = 1
    /\ IncomingRows(res.request) = {}
    /\ BotEnabled /\ appends = <<>>

\* C22: the identity of every event that has been answered and is in processing
\* is resolved.
C22_ResolvedBeforeResponse ==
    \A r \in DOMAIN tasks : tasks[r].chatIdentityId # NULL

\* A delivery is answered in this step.
Delivered == executionCounter' # executionCounter

\* C22, as the code has it: deduplication completes before the response (the
\* id of an event that passes is marked in the step that answers it), and the
\* tenant lookup, the identity lookup or creation, persistence and dispatch
\* come after it: the answering step leaves the datastore and the batches as
\* they are and the event's processing at the tenant lookup.
C22_DedupBeforeResponse ==
    [][Delivered =>
         /\ UNCHANGED <<chat_identities, chat_messages, batches, flushes>>
         /\ (res'.message = Received /\ res'.id # NULL) =>
               /\ res'.id \notin DOMAIN processedMessages
               /\ res'.id \in DOMAIN processedMessages'
               /\ processedMessages'[res'.id] = now
         /\ res'.message = Received =>
               /\ res'.request \in DOMAIN tasks' \ DOMAIN tasks
               /\ tasks'[res'.request].pc = "identity"]_vars
\* The identity of the last event answered was created after the response.
C22_Witness ==
    /\ res.message = Received
    /\ res.request \in DOMAIN tasks
    /\ tasks[res.request].pc = "insert"
    /\ \E identity \in chat_identities :
          /\ identity.id = tasks[res.request].chatIdentityId
          /\ identity.contact_id = NULL

\* The response a message event gets when its id is in the map.
Ignored == "Duplicate message ignored"

\* C23: a message event whose id is in the map is answered 200 as a duplicate,
\* and the step changes nothing but the count of deliveries: the map and the
\* time the id was first seen, the datastore, the cache, the buffer, the timers
\* and the events in processing are as before.
C23_DuplicateNoOp ==
    [][Delivered =>
         /\ (res'.evType = "message" /\ res'.id \in DOMAIN processedMessages) =>
               res'.message = Ignored
         /\ res'.message = Ignored =>
               /\ res'.status = 200
               /\ res'.id \in DOMAIN processedMessages
               /\ processedMessages' = processedMessages
               /\ UNCHANGED <<clockVars, storeVars, bufferVars, tasks>>]_vars
\* A duplicate was delivered a tick or more after its id was first seen, and
\* the map still holds the time of the first.
C23_Witness ==
    /\ res.message = Ignored /\ res.status = 200
    /\ res.id \in DOMAIN processedMessages
    /\ processedMessages[res.id] < now
    /\ gate[res.id].firstAt = processedMessages[res.id]
    /\ gate[res.id].lastAt = now

\* The event in processing r names an app with no active connection.
NoTenant(r) == tasks[r].app \notin DOMAIN platform_connections

\* C24: every delivery is answered 200, whatever its app; the processing of an
\* event whose app has no active connection ends at the tenant lookup, and that
\* step leaves the datastore, the cache, the buffer and the timers as they are
\* and the id marked in the map.
C24_UnknownTenantDropped ==
    /\ [](\A r \in DOMAIN tasks : NoTenant(r) => tasks[r].pc = "identity")
    /\ [][Delivered => res'.status = 200]_vars
    /\ [][\A r \in DOMAIN tasks :
            (NoTenant(r) /\ Stepped(r)) =>
               /\ r \notin DOMAIN tasks'
               /\ UNCHANGED <<storeVars, bufferVars, processedMessages, res>>]_vars
\* An event for an unknown app was answered 200, marked and dropped.
C24_Witness ==
    /\ res.app \notin DOMAIN platform_connections
    /\ res.status = 200 /\ res.message = Received
    /\ res.request \notin DOMAIN tasks
    /\ res.id \in DOMAIN processedMessages
    /\ chat_identities = {} /\ chat_messages = {} /\ appends = <<>> /\ timers = {}

\* One text message of a sender the datastore did not know has been delivered,
\* to the tenant's app, and every call has been answered without error.
Single ==
    /\ executionCounter = 1 /\ deviations = 0
    /\ \A identity \in chat_identities : identity.contact_id = NULL
\* Its reply has been sent and recorded, and its flush has returned.
Replied ==
    /\ Len(batches) = 1 /\ batches[1].outcome = "dispatched"
    /\ flushes = <<>> /\ tasks = <<>>

\* C25: a single first text message creates at most one identity, bot-enabled
\* and with no contact, one inbound row, one push and one batch; the batch is
\* taken by the timer DEBOUNCE_MS after the push, its message is the text, and
\* it leaves no entry and no timer behind; once the reply is out there are
\* exactly one identity, one inbound row, one /invoke call, one send and one
\* outgoing row.  The processing of the message leads to that.
C25_SingleMessage ==
    /\ [](Single =>
            /\ Cardinality(chat_identities) <= 1
            /\ \A identity \in chat_identities : identity.bot_enabled
            /\ Cardinality(IncomingRows(1)) <= 1
            /\ Len(appends) <= 1 /\ Len(batches) <= 1
            /\ (Len(batches) = 1) =>
                  /\ batches[1].trigger = "timer"
                  /\ batches[1].at = appends[1].at + DEBOUNCE_MS
                  /\ batches[1].joined = TextOf(MessageIds[1])
                  /\ pendingByChat = <<>> /\ timers = {}
            /\ Replied =>
                  /\ Cardinality(chat_identities) = 1
                  /\ Cardinality(IncomingRows(1)) = 1
                  /\ Cardinality(chat_messages) = 2
                  /\ Cardinality(OutgoingRows(1)) = 1
                  /\ batches[1].send = "sent" /\ batches[1].insert = "ok"
                  /\ DOMAIN pendingByChat = {})
    /\ (Single /\ tasks # <<>>) ~> (Replied \/ ~Single)
C25_Witness == Single /\ Replied

\* The gateway's environment as the deployment guide sets it to pause the
\* agent.  No statement of the gateway reads the variable: the handler and the
\* flush are the same whatever its value.
AI_AGENT_ENABLED == FALSE

\* C26: with AI_AGENT_ENABLED = false no call of /invoke is made and no reply
\* is sent (inbound messages being received, deduplicated and saved as ever).
C26_GlobalAgentSwitch ==
    ~AI_AGENT_ENABLED =>
       /\ \A i \in DOMAIN flushes : flushes[i].pc # "invoke"
       /\ \A b \in DOMAIN batches : batches[b].send # "sent"

\* C27: the escalation endpoint has answered 200 {success: true} for a chat
\* identity only if the notification was accepted and the identity's
\* bot_enabled is false in the datastore.
C27_EscalationSuccess ==
    \A identity \in chat_identities :
       identity.escalation = 200 => ~identity.bot_enabled

\* C28: a message event without a provider message id produces no chat
\* identity, no inbound row and no buffer append: its processing resolves no
\* identity, no incoming row lacks the id, and no push lacks it.
C28_MalformedSkipped ==
    /\ \A r \in DOMAIN tasks :
          tasks[r].messageId = NULL => tasks[r].chatIdentityId = NULL
    /\ \A row \in chat_messages :
          row.direction = "incoming" => row.platform_message_id # NULL
    /\ \A k \in DOMAIN appends : appends[k].messageId # NULL

\* C29: an inbound message event that finds its chat identity in the datastore
\* updates the row's last_seen (to a time not before the event's arrival), and
\* leaves the other rows as they were.
C29_LastSeenUpdated ==
    [][\A r \in DOMAIN tasks :
          (tasks[r].pc = "identity" /\ r \in DOMAIN tasks' /\ tasks'[r].pc = "insert") =>
             \A identity \in chat_identities' :
                IF identity.id = tasks'[r].chatIdentityId
                THEN identity.last_seen >= tasks[r].arrived
                ELSE identity \in chat_identities]_vars

\* C30 (dedup retention): an id that passed the gate at time t is in the dedup
\* map, marked t, at every time up to t + DEDUP_TTL, and while it is in the map
\* every delivery of it is answered as a duplicate and leaves the map alone;
\* an entry leaves the map only in a run of the periodic sweep, SWEEP_MS after
\* the last one, at which its age exceeds DEDUP_TTL, and its mark does not
\* change before; a delivery of an id passes only when the id is not in the map,
\* which for an id that passed before is after such a removal, and marks it
\* with the time of the delivery.
C30_DedupRetention ==
    /\ [](\A id \in DOMAIN gate :
            (gate[id].passes > 0 /\ now - gate[id].lastPass <= DEDUP_TTL) =>
               /\ id \in DOMAIN processedMessages
               /\ processedMessages[id] = gate[id].lastPass)
    /\ [][\A id \in DOMAIN processedMessages :
            /\ (Delivered /\ res'.evType = "message" /\ res'.id = id) =>
                  /\ res'.message = Ignored
                  /\ UNCHANGED <<processedMessages, tasks>>
            /\ IF id \in DOMAIN processedMessages'
               THEN processedMessages'[id] = processedMessages[id]
               ELSE /\ now >= sweepAt /\ sweepAt' = sweepAt + SWEEP_MS
                    /\ now' = now
                    /\ now - processedMessages[id] > DEDUP_TTL]_vars
    /\ [][\A id \in Ids :
            (Delivered /\ res'.id = id /\ res'.message = Received) =>
               /\ id \notin DOMAIN processedMessages
               /\ id \in DOMAIN processedMessages'
               /\ processedMessages'[id] = now
               /\ (id \in DOMAIN gate /\ gate[id].passes > 0) =>
                     now - gate[id].lastPass > DEDUP_TTL]_vars

\* An id was delivered while it was in the map and answered as a duplicate,
\* was dropped by the sweep, and a later delivery of it passed and marked it
\* again.
C30_Witness ==
    \E id \in DOMAIN gate :
       /\ gate[id].passes = 2 /\ gate[id].duplicates = 1
       /\ id \in DOMAIN processedMessages
       /\ processedMessages[id] = gate[id].lastPass
       /\ gate[id].lastPass - gate[id].firstAt > DEDUP_TTL

\* C31: once every call of cacheAppendMessage on a list has returned, with
\* every command answered and the list not expired, the list holds exactly the
\* min(pushed, REDIS_LAST_N) entries pushed last, oldest first, whether the
\* calls overlapped or not.
C31_NoOverTrim ==
    \A chatKey \in CacheKeys :
       LET list == ListOf(cache, chatKey)
           c == calls[chatKey]
       IN (c.running = {} /\ ~c.failed /\ ~c.expired) =>
            /\ Len(list) = Min(c.pushed, REDIS_LAST_N)
            /\ \A i \in DOMAIN list :
                  list[i].content = ToString(c.pushed - Len(list) + i)

\* The execution of flushBuffer that holds batch b, in a sequence of them.
FlushOf(fs, b) == {i \in DOMAIN fs : fs[i].batch = b}

\* C32: the answer of the cache read never ends a flush: the flush goes on to
\* the call of /invoke with the whole joined batch as message and with
\* recentMessages = [] when the read failed or the key has no list (never
\* written, or expired), the cached turns otherwise; and the handler's step
\* after the cache write pushes the text to the buffer whether the write
\* succeeded or not.
C32_CacheLossDegrades ==
    /\ [][\A i \in DOMAIN flushes :
            LET f == flushes[i] IN
            (f.pc = "cacheGet" /\ FlushOf(flushes', f.batch) # {}) =>
               \A j \in FlushOf(flushes', f.batch) :
                  \/ flushes'[j] = f
                  \/ /\ flushes'[j].pc = "invoke"
                     /\ flushes'[j].joined = Join(batches[f.batch].items)
                     /\ flushes'[j].recentMessages =
                           IF deviations' # deviations
                                 \/ ListOf(cache, f.chatKey) = <<>>
                           THEN <<>>
                           ELSE cacheGetLastMessages(cache, f.chatKey,
                                                     Min(REDIS_LAST_N, 24))]_vars
    /\ [][\A i \in DOMAIN flushes :
            flushes[i].pc = "cacheGet" => FlushOf(flushes', flushes[i].batch) # {}]_vars
    /\ [][\A r \in DOMAIN tasks :
            (tasks[r].pc = "cache" /\ Stepped(r)) =>
               /\ Len(appends') = Len(appends) + 1
               /\ appends'[Len(appends')].request = r
               /\ appends'[Len(appends')].text = tasks[r].processedText
               /\ cache' # cache \/ deviations' # deviations
                     \/ cacheAppendMessage(cache, appends'[Len(appends')].chatKey,
                                           "user", tasks[r].processedText) = cache]_vars

\* The cache write of a text failed, so that its key has no list; the text
\* was pushed all the same, and its batch has been sent to /invoke with no
\* recent messages and answered.
C32_Witness ==
    \E i \in DOMAIN flushes :
       /\ flushes[i].pc = "cacheAppend"
       /\ flushes[i].recentMessages = <<>>
       /\ flushes[i].chatKey \notin DOMAIN cache
       /\ batches[flushes[i].batch].outcome = "dispatched"
       /\ deviations = 1

\* The message event r is an echo: its payload.source is the business number
\* of the tenant its app resolves to.
Echo(t) ==
    /\ t.app \in DOMAIN platform_connections
    /\ t.source = platform_connections[t.app].whatsapp_business_number

\* C33: the processing of an echo never gets past the tenant lookup: it holds
\* no chat identity, and its step ends it and leaves the datastore (identities
\* and rows), the cache, the buffer, the timers and the flushes as they were.
C33_EchoIgnored ==
    /\ [](\A r \in DOMAIN tasks :
            Echo(tasks[r]) =>
               /\ tasks[r].pc = "identity" /\ tasks[r].chatIdentityId = NULL
               /\ IncomingRows(r) = {}
               /\ \A k \in DOMAIN appends : appends[k].request # r)
    /\ [][\A r \in DOMAIN tasks :
            (Echo(tasks[r]) /\ Stepped(r)) =>
               /\ r \notin DOMAIN tasks'
               /\ UNCHANGED <<storeVars, bufferVars>>]_vars

\* An echo was delivered, acknowledged and dropped, and left nothing.
C33_Witness ==
    /\ Echo(res) /\ res.message = Received
    /\ res.request \notin DOMAIN tasks
    /\ IncomingRows(res.request) = {}
    /\ \A k \in DOMAIN appends : appends[k].request # res.request
    /\ chat_identities = {}

\* C34: the context of a buffer entry is the snapshot of the last push to it,
\* and an execution of flushBuffer holds, from the moment it takes the entry to
\* its end, the snapshot of the last push of its batch: the step of a push
\* leaves its own snapshot in the entry, or in the flush it starts.
C34_LatestContextWins ==
    /\ [](/\ \A chatKey \in DOMAIN pendingByChat :
              pendingByChat[chatKey].ctx.supabase = LastOf(pendingByChat[chatKey].src)
          /\ \A i \in DOMAIN flushes :
              flushes[i].ctx.supabase = LastOf(batches[flushes[i].batch].src))
    /\ [][\A r \in DOMAIN tasks :
            (tasks[r].pc = "cache" /\ Stepped(r)) =>
               LET chatKey == ChatKey("orgA", tasks[r].chatIdentityId) IN
               IF chatKey \in DOMAIN pendingByChat'
               THEN pendingByChat'[chatKey].ctx = Ctx(r)
               ELSE \E j \in FlushOf(flushes', Len(batches')) :
                       flushes'[j].ctx = Ctx(r)]_vars
    /\ [][\A i \in DOMAIN flushes : \A j \in FlushOf(flushes', flushes[i].batch) :
            flushes'[j].ctx = flushes[i].ctx]_vars

\* A flush holds a batch of the texts of two message events, with the context
\* of the second.
C34_Witness ==
    \E i \in DOMAIN flushes :
       LET src == batches[flushes[i].batch].src IN
       /\ Len(src) >= 2
       /\ flushes[i].ctx.supabase = src[Len(src)]
       /\ flushes[i].ctx.supabase # src[1]

\* C35: a flush whose call of /invoke was answered goes on, after the send
\* attempt and the insert attempt and whatever they answered, to the append of
\* the response to the cache as an 'assistant' turn; the step that ends the
\* flush appends exactly that turn to the list of the chat (unless redis
\* fails, which is only logged).
C35_FailedSendKeepsTurn ==
    /\ [][\A b \in DOMAIN batches :
            (Answered(b) /\ batches'[b].outcome = "dispatched") =>
               /\ FlushOf(flushes', b) # {}
               /\ \A j \in FlushOf(flushes', b) :
                     /\ flushes'[j].pc = "cacheAppend"
                     /\ flushes'[j].aiResponse = Invoked(TRUE).aiResponse]_vars
    /\ [](\A i \in DOMAIN flushes :
            flushes[i].pc = "cacheAppend" =>
               /\ batches[flushes[i].batch].send \in {"sent", "failed"}
               /\ batches[flushes[i].batch].insert \in {"ok", "failed"})
    /\ [][\A i \in DOMAIN flushes :
            (flushes[i].pc = "cacheAppend" /\ FlushOf(flushes', flushes[i].batch) = {}) =>
               IF deviations' = deviations
               THEN cache' = cacheAppendMessage(cache, flushes[i].chatKey,
                                                "assistant", flushes[i].aiResponse)
               ELSE cache' = cache]_vars

\* The send of a reply failed, its flush is over, and the reply is the last
\* turn of the chat's list, as the assistant's.
C35_Witness ==
    \E b \in DOMAIN batches :
       /\ batches[b].outcome = "dispatched" /\ batches[b].send = "failed"
       /\ FlushOf(flushes, b) = {}
       /\ ListOf(cache, batches[b].chatKey) # <<>>
       /\ LastOf(ListOf(cache, batches[b].chatKey)) =
             [role |-> "assistant", content |-> Invoked(TRUE).aiResponse]

\* The conversation keys, and what a step changes of a key: its buffer entry
\* (items, timer, context), its armed timers, its list in the cache.
AllKeys == {ChatKey("orgA", IdentityIds[k]) : k \in DOMAIN IdentityIds}
EntryOf(pending, chatKey) ==
    IF chatKey \in DOMAIN pending THEN <<pending[chatKey]>> ELSE <<>>
Touched(chatKey) ==
    \/ EntryOf(pendingByChat', chatKey) # EntryOf(pendingByChat, chatKey)
    \/ {t \in timers' : t.chatKey = chatKey} # {t \in timers : t.chatKey = chatKey}
    \/ ListOf(cache', chatKey) # ListOf(cache, chatKey)
\* A call of /invoke is in flight for another key than chatKey.
InFlightBeside(chatKey) ==
    \E i \in DOMAIN flushes :
       flushes[i].pc = "invoke" /\ flushes[i].chatKey # chatKey

\* C36: a push (with its timer reset, or the flush it starts), the fire of a
\* timer and every step of a flush change the buffer entry, the timers and the
\* cache list of their own key only; and a timer that is due can fire whatever
\* calls are in flight for other keys, so that no timer is ever overdue and a
\* batch taken by a timer is taken DEBOUNCE_MS after its last push.
C36_PerKeyIsolation ==
    /\ [][\A chatKey \in AllKeys :
            Touched(chatKey) =>
               \/ \E r \in DOMAIN tasks :
                     /\ tasks[r].pc = "cache" /\ Stepped(r)
                     /\ ChatKey("orgA", tasks[r].chatIdentityId) = chatKey
               \/ \E t \in timers \ timers' : t.chatKey = chatKey /\ t.due <= now
               \/ \E i \in DOMAIN flushes :
                     /\ flushes[i].chatKey = chatKey
                     /\ \A j \in FlushOf(flushes', flushes[i].batch) :
                           flushes'[j] # flushes[i]]_vars
    /\ [][Cardinality({chatKey \in AllKeys : Touched(chatKey)}) <= 1]_vars
    /\ [](\A t \in timers :
            /\ t.due >= now
            /\ (t.due = now /\ InFlightBeside(t.chatKey)) => ENABLED TimerFire(t))
    /\ [](\A b \in DOMAIN batches :
            batches[b].trigger = "timer" =>
               \A k \in DOMAIN appends :
                  appends[k].request = LastOf(batches[b].src) =>
                     batches[b].at = appends[k].at + DEBOUNCE_MS)

\* A timer took the batch of a conversation while the call of /invoke of
\* another conversation was in flight.
C36_Witness ==
    \E i, j \in DOMAIN flushes :
       /\ flushes[i].chatKey # flushes[j].chatKey
       /\ flushes[i].pc = "invoke"
       /\ batches[flushes[j].batch].trigger = "timer"
       /\ flushes[i].batch < flushes[j].batch
       /\ flushes[i].ctx.phone # flushes[j].ctx.phone
       /\ DOMAIN pendingByChat = {}

\* C37: when the escalation endpoint has answered 502 for a chat identity (the
\* provider refused the notification) the identity's bot_enabled is false,
\* for it was set before the send and is not set back; when it has refused
\* the request with 400, bot_enabled is as it was (true: only enabled chats
\* are escalated here).
C37_EscalationNoRollback ==
    \A identity \in chat_identities :
       /\ identity.escalation = 502 => ~identity.bot_enabled
       /\ identity.escalation = 400 => identity.bot_enabled

\* C38: between the steps of the handler every entry of the buffer map holds
\* from 1 to MAX_BATCH - 1 texts, and every batch a flush has taken holds from
\* 1 to MAX_BATCH texts: fewer than MAX_BATCH when a timer took it, MAX_BATCH
\* when a push did; the flush in progress holds the texts of its batch.
C38_BatchSize ==
    /\ \A chatKey \in DOMAIN pendingByChat :
          /\ Len(pendingByChat[chatKey].items) >= 1
          /\ Len(pendingByChat[chatKey].items) <= MAX_BATCH - 1
    /\ \A b \in DOMAIN batches :
          /\ Len(batches[b].items) >= 1
          /\ Len(batches[b].items) <= MAX_BATCH
          /\ (batches[b].trigger = "size") = (Len(batches[b].items) = MAX_BATCH)
    /\ \A i \in DOMAIN flushes :
          flushes[i].items = batches[flushes[i].batch].items

\* A push has filled an entry, its batch of MAX_BATCH texts was answered by
\* the AI backend, and no text is left in the map.
C38_Witness ==
    /\ \E b \in DOMAIN batches :
          /\ Len(batches[b].items) = MAX_BATCH
          /\ batches[b].outcome = "dispatched"
    /\ DOMAIN pendingByChat = {}

\* C39: the insert of a message event's inbound row has been attempted (and
\* answered) before its text is pushed: a processing that has not got past the
\* insert has pushed nothing, every push records the answer of its insert, and
\* the row is in the datastore exactly when the insert succeeded, hence for
\* every text of every batch before its flush starts; the step that answers
\* the insert of a bot-enabled chat goes on to the push whether the insert
\* succeeded or failed.
C39_PersistBeforeBuffering ==
    /\ [](\A r \in DOMAIN tasks :
            IF tasks[r].pc = "cache" THEN tasks[r].inserted \in {"ok", "failed"}
            ELSE /\ tasks[r].inserted = "none"
                 /\ \A k \in DOMAIN appends : appends[k].request # r)
    /\ [](\A k \in DOMAIN appends :
            /\ appends[k].inserted \in {"ok", "failed"}
            /\ (appends[k].inserted = "ok") = (IncomingRows(appends[k].request) # {}))
    /\ [](\A b \in DOMAIN batches : \A n \in DOMAIN batches[b].src :
            \E k \in DOMAIN appends :
               /\ appends[k].request = batches[b].src[n]
               /\ appends[k].text = batches[b].items[n]
               /\ appends[k].inserted # "none")
    /\ [][\A r \in DOMAIN tasks :
            (tasks[r].pc = "insert" /\ Stepped(r) /\ tasks[r].botEnabled) =>
               /\ r \in DOMAIN tasks'
               /\ tasks'[r].pc = "cache"]_vars

\* The insert of a text's inbound row failed, so that the row is missing, and
\* the text was pushed and its batch answered by the AI backend.
C39_Witness ==
    \E b \in DOMAIN batches : \E k \in DOMAIN appends :
       /\ batches[b].outcome = "dispatched"
       /\ \E n \in DOMAIN batches[b].src : batches[b].src[n] = appends[k].request
       /\ appends[k].inserted = "failed"
       /\ IncomingRows(appends[k].request) = {}

\* The pushes behind the texts of batch b.
BatchPushes(b) ==
    {k \in DOMAIN appends :
        \E n \in DOMAIN batches[b].src : batches[b].src[n] = appends[k].request}

====
